---- MODULE Spec2Model ----
(***************************************************************************)
(* Model of services/mail-service: the binary's main (src/main.rs) and the *)
(* public async function mail::send_email (src/mail/mail.rs).              *)
(*                                                                         *)
(* main never calls send_email; send_email is exercised here the way any   *)
(* caller inside the process can exercise a public async function: a       *)
(* bounded number of invocations, started at any time while the process    *)
(* runs, interleaved at their await/`?` points.                            *)
(*                                                                         *)
(* An e-mail address is a sequence of tokens in which "@" is the separator *)
(* character and every other token is a non-empty run of ordinary          *)
(* characters.                                                             *)
(***************************************************************************)
EXTENDS Naturals, Sequences, FiniteSets

\* Number of send_email invocations the model follows.
MaxCalls == 2

Calls == 1..MaxCalls

\* Largest value considered for a numeric setting the callers of send_email
\* could be configured with (a retry limit, a limit on simultaneous sends);
\* send_email and main read no such setting.
MaxSetting == 2

Settings == 1..MaxSetting

\* mail.rs:16  let from_email = "dev@matchapp.fr";
from_email == <<"dev", "@", "matchapp.fr">>

\* Values of the `email` argument of send_email (mail.rs:14): two well-formed
\* addresses and the malformed shapes (no "@", empty, empty local part, empty
\* domain, two "@").
Emails ==
    { <<"user", "@", "matchapp.com">>,
      <<"bob", "@", "matchapp.com">>,
      <<"user", "matchapp.com">>,
      <<>>,
      <<"@", "matchapp.com">>,
      <<"user", "@">>,
      <<"user", "@", "@", "matchapp.com">> }

\* main.rs:16 builds the only subject the program knows; the body is free text.
Subjects == {"New Match"}
Bodies == {"<p>hi</p>"}

\* Environment variables read at mail.rs:26-27.
SmtpVars == {"SMTP_USER", "SMTP_PASS"}

\* What the relay can answer to one submission (mail.rs:32): acceptance, a
\* 4xx reply, a 5xx reply, or no answer (network failure / timeout).
Replies == {"250", "4xx", "5xx", "timeout"}

VARIABLES
    pc,        \* pc[c]: position of invocation c inside send_email
    args,      \* args[c]: the (email, subject, body) the invocation was given
    result,    \* result[c]: "none" while running, "Ok", or the error returned
    attempts,  \* attempts[c]: number of transport.send calls the invocation made
    wire,      \* every submission the relay answered: [call, to, reply]
    env,       \* names of the SMTP_* variables present in the process environment
    mainpc,    \* position of main
    task,      \* state of the task spawned at main.rs:15
    stdout,    \* lines printed
    exitCode   \* "none" while the process runs, then the exit status "0" or "1"

vars == <<pc, args, result, attempts, wire, env, mainpc, task, stdout, exitCode>>

NoArgs == [email |-> <<>>, subject |-> "", body |-> ""]

\* str::parse::<Address>/<Mailbox> (mail.rs:17, mail.rs:20): the text is split
\* at its last "@"; the part before must be a non-empty local part without a
\* further "@", the part after a non-empty domain.
AtPositions(e) == {i \in DOMAIN e : e[i] = "@"}

ParseOk(e) ==
    /\ Cardinality(AtPositions(e)) = 1
    /\ \A i \in AtPositions(e) : 1 < i /\ i < Len(e)

Running == mainpc # "exited"

Init ==
    /\ pc = [c \in Calls |-> "idle"]
    /\ args = [c \in Calls |-> NoArgs]
    /\ result = [c \in Calls |-> "none"]
    /\ attempts = [c \in Calls |-> 0]
    /\ wire = {}
    /\ env \in SUBSET SmtpVars
    /\ mainpc = "dotenv"
    /\ task = "none"
    /\ stdout = <<>>
    /\ exitCode = "none"

mainVars == <<env, mainpc, task, stdout, exitCode>>

\* `?` on an Err (mail.rs:17,20,26,27,29,32): the invocation ends with that error.
ReturnErr(c, e) ==
    /\ pc' = [pc EXCEPT ![c] = "done"]
    /\ result' = [result EXCEPT ![c] = e]

\* mail.rs:14: an invocation starts.
Call(c, email, subject, body) ==
    /\ Running
    /\ pc[c] = "idle"
    /\ pc' = [pc EXCEPT ![c] = "parse_from"]
    /\ args' = [args EXCEPT ![c] = [email |-> email, subject |-> subject, body |-> body]]
    /\ UNCHANGED <<result, attempts, wire, mainVars>>

\* mail.rs:16-17: let from = from_email.parse()?;
ParseFrom(c) ==
    /\ Running
    /\ pc[c] = "parse_from"
    /\ IF ParseOk(from_email)
         THEN pc' = [pc EXCEPT ![c] = "parse_to"] /\ UNCHANGED result
         ELSE ReturnErr(c, "AddressError")
    /\ UNCHANGED <<args, attempts, wire, mainVars>>

\* mail.rs:18-24: email.parse()? and the message is built; with a sender and a
\* recipient present the builder succeeds, so the unwrap does not panic.
ParseTo(c) ==
    /\ Running
    /\ pc[c] = "parse_to"
    /\ IF ParseOk(args[c].email)
         THEN pc' = [pc EXCEPT ![c] = "env_user"] /\ UNCHANGED result
         ELSE ReturnErr(c, "AddressError")
    /\ UNCHANGED <<args, attempts, wire, mainVars>>

\* mail.rs:26: std::env::var("SMTP_USER")?
EnvUser(c) ==
    /\ Running
    /\ pc[c] = "env_user"
    /\ IF "SMTP_USER" \in env
         THEN pc' = [pc EXCEPT ![c] = "env_pass"] /\ UNCHANGED result
         ELSE ReturnErr(c, "VarError")
    /\ UNCHANGED <<args, attempts, wire, mainVars>>

\* mail.rs:27: std::env::var("SMTP_PASS")?
EnvPass(c) ==
    /\ Running
    /\ pc[c] = "env_pass"
    /\ IF "SMTP_PASS" \in env
         THEN pc' = [pc EXCEPT ![c] = "relay"] /\ UNCHANGED result
         ELSE ReturnErr(c, "VarError")
    /\ UNCHANGED <<args, attempts, wire, mainVars>>

\* mail.rs:29-31: AsyncSmtpTransport::relay("smtp.zoho.com:587")? builds the
\* TLS parameters of a transport of this invocation's own; whether that
\* succeeds is decided by the TLS backend, not by this code.
Relay(c, built) ==
    /\ Running
    /\ pc[c] = "relay"
    /\ IF built
         THEN pc' = [pc EXCEPT ![c] = "send"] /\ UNCHANGED result
         ELSE ReturnErr(c, "SmtpError")
    /\ UNCHANGED <<args, attempts, wire, mainVars>>

\* mail.rs:32: transport.send(to) is called and awaited.
SendStart(c) ==
    /\ Running
    /\ pc[c] = "send"
    /\ pc' = [pc EXCEPT ![c] = "sending"]
    /\ attempts' = [attempts EXCEPT ![c] = @ + 1]
    /\ UNCHANGED <<args, result, wire, mainVars>>

\* SendReply with a retry loop around the submission: a failed submission is
\* submitted again (up to three times) instead of being returned.
SendReplyRetry(c, r) ==
    /\ Running
    /\ pc[c] = "sending"
    /\ wire' = wire \cup {[call |-> c, to |-> args[c].email, n |-> attempts[c], reply |-> r]}
    /\ IF r # "250" /\ attempts[c] < 3
         THEN pc' = [pc EXCEPT ![c] = "send"] /\ UNCHANGED result
         ELSE /\ pc' = [pc EXCEPT ![c] = "done"]
              /\ result' = [result EXCEPT ![c] = IF r = "250" THEN "Ok" ELSE "ZOHO failed !"]
    /\ UNCHANGED <<args, attempts, mainVars>>

\* mail.rs:32-33: the await completes; .context("ZOHO failed !")? returns any
\* failure as an error, otherwise Ok(()).
SendReply(c, r) ==
    /\ Running
    /\ pc[c] = "sending"
    /\ wire' = wire \cup {[call |-> c, to |-> args[c].email, n |-> attempts[c], reply |-> r]}
    /\ pc' = [pc EXCEPT ![c] = "done"]
    /\ result' = [result EXCEPT ![c] = IF r = "250" THEN "Ok" ELSE "ZOHO failed !"]
    /\ UNCHANGED <<args, attempts, mainVars>>

callVars == <<pc, args, result, attempts, wire>>

\* main.rs:14: dotenv().ok() adds the variables a .env file defines, if any.
Dotenv(file) ==
    /\ mainpc = "dotenv"
    /\ env' = env \cup file
    /\ mainpc' = "spawn"
    /\ UNCHANGED <<callVars, task, stdout, exitCode>>

\* main.rs:15: tokio::spawn of the producer task.
Spawn ==
    /\ mainpc = "spawn"
    /\ task' = "event"
    /\ mainpc' = "join"
    /\ UNCHANGED <<callVars, env, stdout, exitCode>>

\* main.rs:16: the task builds the event value and drops it.
TaskEvent ==
    /\ Running
    /\ task = "event"
    /\ task' = "print"
    /\ UNCHANGED <<callVars, env, mainpc, stdout, exitCode>>

\* main.rs:17: println!("thread") prints, or panics when stdout cannot be written.
TaskPrint(written) ==
    /\ Running
    /\ task = "print"
    /\ IF written
         THEN task' = "finished" /\ stdout' = Append(stdout, "thread")
         ELSE task' = "panicked" /\ UNCHANGED stdout
    /\ UNCHANGED <<callVars, env, mainpc, exitCode>>

\* main.rs:19-20: try_join!(producer_task)? then Ok(()); main returning ends the
\* process, whatever else is running in it.
Join ==
    /\ mainpc = "join"
    /\ task \in {"finished", "panicked"}
    /\ mainpc' = "exited"
    /\ exitCode' = IF task = "finished" THEN "0" ELSE "1"
    /\ UNCHANGED <<callVars, env, task, stdout>>

Next ==
    \/ \E c \in Calls, e \in Emails, s \in Subjects, b \in Bodies : Call(c, e, s, b)
    \/ \E c \in Calls : ParseFrom(c)
    \/ \E c \in Calls : ParseTo(c)
    \/ \E c \in Calls : EnvUser(c)
    \/ \E c \in Calls : EnvPass(c)
    \/ \E c \in Calls, built \in BOOLEAN : Relay(c, built)
    \/ \E c \in Calls : SendStart(c)
    \/ \E c \in Calls, r \in Replies : SendReply(c, r)
    \/ \E file \in SUBSET SmtpVars : Dotenv(file)
    \/ Spawn
    \/ TaskEvent
    \/ \E written \in BOOLEAN : TaskPrint(written)
    \/ Join

Spec == Init /\ [][Next]_vars

TypeOK ==
    /\ pc \in [Calls -> {"idle", "parse_from", "parse_to", "env_user", "env_pass",
                         "relay", "send", "sending", "done"}]
    /\ result \in [Calls -> {"none", "Ok", "AddressError", "VarError", "SmtpError",
                             "ZOHO failed !"}]
    /\ attempts \in [Calls -> Nat]
    /\ env \subseteq SmtpVars
    /\ mainpc \in {"dotenv", "spawn", "join", "exited"}
    /\ task \in {"none", "event", "print", "finished", "panicked"}
    /\ exitCode \in {"none", "0", "1"}

(***************************************************************************)
(* Vocabulary of the properties, read off the state above.                 *)
(***************************************************************************)

\* send_email has no event identifier parameter: an event is identified by
\* the arguments it is sent with, and a redelivery of an event is a further
\* invocation with the same arguments.
SameEvent(c, d) == pc[c] # "idle" /\ pc[d] # "idle" /\ args[c] = args[d]

\* The submissions of invocation c the relay has answered.
Submissions(c) == {w \in wire : w.call = c}

\* Invocations whose submission is in flight (awaiting at mail.rs:32).
InFlight == {c \in Calls : pc[c] = "sending"}

\* Classification of a relay answer (the code itself does not classify).
Transient(r) == r \in {"4xx", "timeout"}
Permanent(r) == r = "5xx"

\* Everything the program writes anywhere: SMTP submissions (mail.rs:32) and
\* lines on stdout (main.rs:17).  No statement of the source writes to any
\* other sink.
Outputs ==
    {[sink |-> "smtp", call |-> w.call] : w \in wire}
        \cup {[sink |-> "stdout", call |-> 0] : i \in DOMAIN stdout}

\* The event of invocation c has been written to a dead-letter sink.
DeadLettered(c) == [sink |-> "dead-letter", call |-> c] \in Outputs

\* A further attempt of invocation c is pending after a failed one.
RetryScheduled(c) == pc[c] = "send" /\ attempts[c] >= 1

(***************************************************************************)
(* Properties.                                                             *)
(***************************************************************************)

\* C1 (as claimed): under redelivery of the same event, at most one
\* submission of that event is ever accepted by the relay.
IdempotenceUnderRedelivery ==
    \A c \in Calls, d \in Calls :
        (SameEvent(c, d) /\ result[c] = "Ok" /\ result[d] = "Ok") => c = d

\* C3 (as claimed): at every moment at most one send attempt of the same
\* event is in flight, even when duplicate deliveries are processed
\* concurrently.
SingleInFlightPerEvent ==
    \A c \in InFlight, d \in InFlight : SameEvent(c, d) => c = d

\* C4 (as claimed): whatever retry limit maxRetries is configured, an event
\* whose every send met a transient failure has been attempted exactly
\* maxRetries times when its processing ends, and is then dead-lettered.
RetryBound ==
    \A maxRetries \in Settings : \A c \in Calls :
        ( /\ pc[c] = "done"
          /\ Submissions(c) # {}
          /\ \A w \in Submissions(c) : Transient(w.reply) )
        => attempts[c] = maxRetries /\ DeadLettered(c)

\* C5 (as claimed): whatever limit N = maxConcurrentSends is configured, at
\* most N sends execute concurrently.
Backpressure ==
    \A N \in Settings : Cardinality(InFlight) <= N

\* C7 (as claimed): an event whose recipient address is malformed is
\* dead-lettered when its processing ends, and never causes an SMTP send.
PoisonMessageIsolation ==
    \A c \in Calls :
        (pc[c] = "done" /\ ~ParseOk(args[c].email))
        => DeadLettered(c) /\ attempts[c] = 0

\* C8 (as claimed): an event whose first send meets a permanent failure is
\* dead-lettered at once with exactly one send attempt, and no retry is
\* scheduled for it.
PermanentFailureShortCircuit ==
    \A c \in Calls :
        (\E w \in Submissions(c) : w.n = 1 /\ Permanent(w.reply))
        => DeadLettered(c) /\ attempts[c] = 1 /\ ~RetryScheduled(c)

\* C9 (as claimed): every processing pass that reached the relay and has
\* ended has ended in a success, a dead-lettered failure or a scheduled retry.
ErrorContainment ==
    \A c \in Calls :
        (pc[c] = "done" /\ attempts[c] >= 1)
        => (result[c] = "Ok" \/ DeadLettered(c) \/ RetryScheduled(c))

\* C10: one invocation of send_email submits at most one message; it returns
\* Ok only if that one submission was accepted; an error in parsing an
\* address, in reading SMTP_USER or SMTP_PASS, or in building the transport
\* is returned with nothing submitted; a failed submission is returned as an
\* error after that single attempt.
SendEmailContract ==
    \A c \in Calls :
        /\ attempts[c] <= 1
        /\ Cardinality(Submissions(c)) <= attempts[c]
        /\ result[c] = "Ok" =>
              [call |-> c, to |-> args[c].email, n |-> 1, reply |-> "250"] \in wire
        /\ result[c] \in {"AddressError", "VarError", "SmtpError"} => attempts[c] = 0
        /\ (pc[c] = "done" /\ ~ParseOk(args[c].email)) =>
              result[c] = "AddressError" /\ attempts[c] = 0
        /\ attempts[c] > 0 => ParseOk(args[c].email) /\ SmtpVars \subseteq env
        /\ (\E w \in Submissions(c) : w.reply # "250") =>
              pc[c] = "done" /\ result[c] = "ZOHO failed !" /\ attempts[c] = 1

\* C10 witness: one invocation has returned Ok after its submission was
\* accepted, another has returned the error of a failed submission.
SendEmailContractWitness ==
    \E c \in Calls, d \in Calls :
        /\ result[c] = "Ok" /\ attempts[c] = 1
        /\ result[d] = "ZOHO failed !" /\ attempts[d] = 1
        /\ \E w \in Submissions(d) : w.reply # "250"
====
